---- MODULE Spec2Model ----
(***************************************************************************)
(* The AMS telemetry exporter: the COSEM value parser of pkg/protocol and  *)
(* the producer / consumer pipeline of main.go.                            *)
(*                                                                         *)
(* Bytes are naturals 0..255.  A Go string is the sequence of its bytes.   *)
(* A Go value of type `any` is a record [t, n, s, a]: t is the dynamic Go  *)
(* type ("nil", "int8", ..., "uint32", "string", "arr"), n the number of   *)
(* an integer, s the bytes of a string, a the elements of a []any.         *)
(* A Go error is a string; "nil" is the nil error.                         *)
(* A number is a pair <<hi, lo>> standing for hi * 65536 + lo, with lo in  *)
(* 0..65535: the 32-bit integers of the wire do not fit the model          *)
(* checker's own integers.                                                 *)
(***************************************************************************)
EXTENDS Integers, Sequences, FiniteSets, TLC

VARIABLES
    intSize,            \* the width in bits of the build's int type: 32 or 64
    ctxDone,            \* ctx.Err() != nil: cancel() has been called
    httpPc,             \* the HTTP server goroutine: "serve" or "done"
    ppc,                \* the producer goroutine: "loop", "read", "send", "done"
    cpc,                \* the main goroutine's loop: "loop", "select", "done"
    buf,                \* the read buffer: the prefix written so far (the rest is zero)
    packet,             \* the producer's local packet, waiting to be sent
    packets,            \* the channel between producer and consumer
    signals,            \* the number of signals waiting in the signals channel
    gaugeVal,           \* the value of every gauge of the gauges table
    msgCounter,
    resyncCounter,
    abortCounter,
    parseErrorCounter,
    reads,              \* history: every transport read and what came of it
    sent,               \* history: the packets sent on the channel, in order
    received,           \* history: the packets received from the channel, in order
    tree,               \* the value tree given to the parser (parser specification)
    wire,               \* the bytes given to the parser (parser specification)
    out,                \* what the parser returned (parser specification)
    parse               \* a call of ParseAny in progress, step by step: where it
                        \* is, the offset of its reader, the calls of ParseArray
                        \* that are open and the value being returned

vars == <<intSize, ctxDone, httpPc, ppc, cpc, buf, packet, packets, signals, gaugeVal,
          msgCounter, resyncCounter, abortCounter, parseErrorCounter,
          reads, sent, received, tree, wire, out, parse>>

pipelineVars == <<intSize, ctxDone, httpPc, ppc, cpc, buf, packet, packets, signals, gaugeVal,
                  msgCounter, resyncCounter, abortCounter, parseErrorCounter,
                  reads, sent, received>>

parserVars == <<tree, wire, out, parse>>

-----------------------------------------------------------------------------
(* Program constants *)

\* make([]byte, 1024)
BufSize == 1024

\* buf[17:]
HeaderLen == 17

\* make(chan map[string]any, 32)
ChanCap == 32

\* make(chan os.Signal, 2)
SignalCap == 2

\* if strlen != 6
CodeLen == 6

-----------------------------------------------------------------------------
(* Go values *)

NoSeq == <<>>

\* the number i, for an i of at most 31 bits
Num(i) == <<i \div 65536, i % 65536>>

GoNil == [t |-> "nil", n |-> Num(0), s |-> NoSeq, a |-> NoSeq]

GoInt(ty, i) == [t |-> ty, n |-> i, s |-> NoSeq, a |-> NoSeq]

GoString(bytes) == [t |-> "string", n |-> Num(0), s |-> bytes, a |-> NoSeq]

GoArr(elems) == [t |-> "arr", n |-> Num(0), s |-> NoSeq, a |-> elems]

\* The empty map (also what stands for the nil map returned with an error).
EmptyMap == [k \in {} |-> GoNil]

\* result[key] = val
MapSetKeepFirst(m, key, val) ==
    [k \in (DOMAIN m) \cup {key} |-> IF k \in DOMAIN m THEN m[k] ELSE val]

MapSet(m, key, val) == [k \in (DOMAIN m) \cup {key} |-> IF k = key THEN val ELSE m[k]]

-----------------------------------------------------------------------------
(* Readers.  A reader is a memory m = [b, size] and an offset pos: the     *)
(* bytes are b followed by zeros up to size, pos of them already consumed. *)

Mem(bytes, size) == [b |-> bytes, size |-> size]

BytesReader(bytes) == Mem(bytes, Len(bytes))

ByteAt(m, i) == IF i <= Len(m.b) THEN m.b[i] ELSE 0

\* io.ReadFull(r, make([]byte, n)) on a bytes.Reader
ReadFull(m, pos, n) ==
    IF n = 0 THEN [err |-> "nil", bytes |-> NoSeq, pos |-> pos]
    ELSE IF m.size - pos = 0 THEN [err |-> "EOF", bytes |-> NoSeq, pos |-> pos]
    ELSE IF m.size - pos < n THEN [err |-> "unexpected EOF", bytes |-> NoSeq, pos |-> m.size]
    ELSE [err |-> "nil", bytes |-> [i \in 1..n |-> ByteAt(m, pos + i)], pos |-> pos + n]

Ret(err, val, pos) == [err |-> err, val |-> val, pos |-> pos]

-----------------------------------------------------------------------------
(* fmt.Sprintf("%d", b) for a byte, as ASCII *)

Digit(d) == 48 + d

Dec(b) ==
    IF b < 10 THEN <<Digit(b)>>
    ELSE IF b < 100 THEN <<Digit(b \div 10), Digit(b % 10)>>
    ELSE <<Digit(b \div 100), Digit((b \div 10) % 10), Digit(b % 10)>>

\* fmt.Sprintf("%d-%d:%d.%d.%d.%d", ...): '-' is 45, ':' is 58, '.' is 46
Sprintf6(c) ==
    Dec(c[1]) \o <<45>> \o Dec(c[2]) \o <<58>> \o Dec(c[3]) \o <<46>> \o
    Dec(c[4]) \o <<46>> \o Dec(c[5]) \o <<46>> \o Dec(c[6])

-----------------------------------------------------------------------------
(* pkg/protocol *)

ParseString(m, pos) ==
    LET l == ReadFull(m, pos, 1) IN
    IF l.err # "nil" THEN Ret(l.err, GoString(<<>>), l.pos)
    ELSE LET strlen == l.bytes[1]
             d == ReadFull(m, l.pos, strlen) IN
         IF d.err # "nil" THEN Ret(d.err, GoString(<<>>), d.pos)
         ELSE Ret("nil", GoString(d.bytes), d.pos)

ParseCode(m, pos) ==
    LET l == ReadFull(m, pos, 1) IN
    IF l.err # "nil" THEN Ret(l.err, GoString(<<>>), l.pos)
    ELSE LET strlen == l.bytes[1]
             d == ReadFull(m, l.pos, strlen) IN
         IF d.err # "nil" THEN Ret(d.err, GoString(<<>>), d.pos)
         ELSE IF strlen # CodeLen THEN Ret("not a code", GoString(<<>>), d.pos)
         ELSE Ret("nil", GoString(Sprintf6(d.bytes)), d.pos)

\* binary.BigEndian over one, two or four bytes, as an unsigned number
BigEndian(bytes) ==
    IF Len(bytes) = 1 THEN <<0, bytes[1]>>
    ELSE IF Len(bytes) = 2 THEN <<0, bytes[1] * 256 + bytes[2]>>
    ELSE <<bytes[1] * 256 + bytes[2], bytes[3] * 256 + bytes[4]>>

\* the two's complement reading of an unsigned number of the given width
Signed(u, width) ==
    IF width = 1 THEN (IF u[2] >= 128 THEN Num(u[2] - 256) ELSE u)
    ELSE IF width = 2 THEN (IF u[2] >= 32768 THEN Num(u[2] - 65536) ELSE u)
    ELSE (IF u[1] >= 32768 THEN <<u[1] - 65536, u[2]>> ELSE u)

\* binary.Read(r, binary.BigEndian, &i) with i of the given type
BinaryRead(m, pos, ty, width, signed) ==
    LET d == ReadFull(m, pos, width) IN
    IF d.err # "nil" THEN Ret(d.err, GoInt(ty, Num(0)), d.pos)
    ELSE Ret("nil",
             GoInt(ty, IF signed THEN Signed(BigEndian(d.bytes), width)
                                 ELSE BigEndian(d.bytes)),
             d.pos)

ParseUint8(m, pos) == BinaryRead(m, pos, "uint8", 1, FALSE)

ParseUint16(m, pos) == BinaryRead(m, pos, "uint16", 2, FALSE)

ParseUint32(m, pos) == BinaryRead(m, pos, "uint32", 4, FALSE)

ParseInt8(m, pos) == BinaryRead(m, pos, "int8", 1, TRUE)

ParseInt16(m, pos) == BinaryRead(m, pos, "int16", 2, TRUE)

ParseInt32(m, pos) == BinaryRead(m, pos, "int32", 4, TRUE)

\* the names of 30 and 32 taken for one another
EnumNameGuessed(b) ==
    CASE b = 27 -> <<87>>
      [] b = 28 -> <<86, 65>>
      [] b = 29 -> <<86, 65, 114>>
      [] b = 30 -> <<86, 65, 114, 104>>
      [] b = 32 -> <<87, 104>>
      [] b = 33 -> <<65>>
      [] b = 35 -> <<86>>
      [] OTHER -> <<>>

\* the unit names, as ASCII: W, VA, VAr, Wh, VArh, A, V
EnumName(b) ==
    CASE b = 27 -> <<87>>
      [] b = 28 -> <<86, 65>>
      [] b = 29 -> <<86, 65, 114>>
      [] b = 30 -> <<87, 104>>
      [] b = 32 -> <<86, 65, 114, 104>>
      [] b = 33 -> <<65>>
      [] b = 35 -> <<86>>
      [] OTHER -> <<>>

ParseEnum(m, pos) ==
    LET l == ReadFull(m, pos, 1) IN
    IF l.err # "nil" THEN Ret(l.err, GoNil, l.pos)
    ELSE IF l.bytes[1] \in {27, 28, 29, 30, 32, 33, 35}
         THEN Ret("nil", GoString(EnumName(l.bytes[1])), l.pos)
         ELSE Ret("unknown enum index " \o ToString(l.bytes[1]), GoString(<<>>), l.pos)

RECURSIVE ParseAny(_, _), ParseElems(_, _, _, _, _)

\* the loop of ParseArray: elements i..le, arr holding the elements so far
\* (nil where none was stored yet)
ParseElems(m, pos, i, le, arr) ==
    IF i > le THEN Ret("nil", GoArr(arr), pos)
    ELSE LET e == ParseAny(m, pos)
             stored == [arr EXCEPT ![i] = e.val] IN
         IF e.err # "nil" THEN Ret(e.err, GoArr(stored), e.pos)
         ELSE ParseElems(m, e.pos, i + 1, le, stored)

ParseArray(m, pos) ==
    LET l == ReadFull(m, pos, 1) IN
    IF l.err # "nil" THEN Ret(l.err, GoNil, l.pos)
    ELSE LET le == l.bytes[1] IN
         ParseElems(m, l.pos, 1, le, [i \in 1..le |-> GoNil])

ParseAny(m, pos) ==
    LET l == ReadFull(m, pos, 1) IN
    IF l.err # "nil" THEN Ret(l.err, GoNil, l.pos)
    ELSE LET tag == l.bytes[1] IN
         CASE tag = 0 -> Ret("nil", GoNil, l.pos)
           [] tag \in {1, 2} -> ParseArray(m, l.pos)
           [] tag = 9 -> ParseCode(m, l.pos)
           [] tag \in {10, 12} -> ParseString(m, l.pos)
           [] tag = 15 -> ParseInt8(m, l.pos)
           [] tag = 16 -> ParseInt16(m, l.pos)
           [] tag = 17 -> ParseUint8(m, l.pos)
           [] tag = 18 -> ParseUint16(m, l.pos)
           [] tag = 5 -> ParseInt32(m, l.pos)
           [] tag = 6 -> ParseUint32(m, l.pos)
           [] tag = 22 -> ParseEnum(m, l.pos)
           [] OTHER -> Ret("unrecognized datatype: " \o ToString(tag), GoNil, l.pos)

FlatRet(err, result, pos) == [err |-> err, result |-> result, pos |-> pos]

RECURSIVE FlattenItems(_, _, _, _)

\* the loop of ParseFlattened over arr, from item i on
FlattenItems(arr, i, result, pos) ==
    IF i > Len(arr) THEN FlatRet("nil", result, pos)
    ELSE LET item == arr[i] IN
         IF item.t # "arr"
         THEN FlatRet("sub-level data not of array type", EmptyMap, pos)
         ELSE IF Len(item.a) < 2
         THEN FlatRet("sub-level data does not contain at least two entries", EmptyMap, pos)
         ELSE IF item.a[1].t # "string"
         THEN FlatRet("first entry not string type; unusable as key", EmptyMap, pos)
         ELSE FlattenItems(arr, i + 1, MapSet(result, item.a[1].s, item.a[2]), pos)

\* the array is flattened though the parser returned it with an error
ParseFlattenedPartial(m, pos) ==
    LET d == ParseAny(m, pos) IN
    IF d.val.t # "arr"
    THEN FlatRet("top-level structure not of array type", EmptyMap, d.pos)
    ELSE FlattenItems(d.val.a, 1, EmptyMap, d.pos)

ParseFlattened(m, pos) ==
    LET d == ParseAny(m, pos) IN
    IF d.err # "nil" THEN FlatRet(d.err, EmptyMap, d.pos)
    ELSE IF d.val.t # "arr"
    THEN FlatRet("top-level structure not of array type", EmptyMap, d.pos)
    ELSE FlattenItems(d.val.a, 1, EmptyMap, d.pos)

-----------------------------------------------------------------------------
(* Value trees of the wire format and their encoding: the inverse of the   *)
(* tag table.  A tree is [t, w, n, s, a]: t the variant, w the integer     *)
(* type of an Integer, n its number, s the bytes of a Text, the six bytes  *)
(* of an Identifier or the name of a Unit, a the members of a Sequence.    *)

Null == [t |-> "Null", w |-> "", n |-> Num(0), s |-> NoSeq, a |-> NoSeq]

Integer(w, i) == [t |-> "Integer", w |-> w, n |-> i, s |-> NoSeq, a |-> NoSeq]

Text(bytes) == [t |-> "Text", w |-> "", n |-> Num(0), s |-> bytes, a |-> NoSeq]

Identifier(code) == [t |-> "Identifier", w |-> "", n |-> Num(0), s |-> code, a |-> NoSeq]

Unit(name) == [t |-> "Unit", w |-> "", n |-> Num(0), s |-> name, a |-> NoSeq]

Sequence(members) == [t |-> "Sequence", w |-> "", n |-> Num(0), s |-> NoSeq, a |-> members]

UnitCodes == {27, 28, 29, 30, 32, 33, 35}

IntTag(w) ==
    CASE w = "int8" -> 15
      [] w = "int16" -> 16
      [] w = "uint8" -> 17
      [] w = "uint16" -> 18
      [] w = "int32" -> 5
      [] w = "uint32" -> 6

IntWidth(w) ==
    CASE w \in {"int8", "uint8"} -> 1
      [] w \in {"int16", "uint16"} -> 2
      [] w \in {"int32", "uint32"} -> 4

\* the big-endian two's complement bytes of the number i, width bytes wide
EncodeInt(i, width) ==
    IF width = 1 THEN <<i[2] % 256>>
    ELSE IF width = 2 THEN <<i[2] \div 256, i[2] % 256>>
    ELSE <<(i[1] % 65536) \div 256, i[1] % 256, i[2] \div 256, i[2] % 256>>

RECURSIVE Encode(_), EncodeAll(_, _)

EncodeAll(members, i) ==
    IF i > Len(members) THEN <<>> ELSE Encode(members[i]) \o EncodeAll(members, i + 1)

Encode(v) ==
    CASE v.t = "Null" -> <<0>>
      [] v.t = "Integer" -> <<IntTag(v.w)>> \o EncodeInt(v.n, IntWidth(v.w))
      [] v.t = "Text" -> <<10, Len(v.s)>> \o v.s
      [] v.t = "Identifier" -> <<9, Len(v.s)>> \o v.s
      [] v.t = "Unit" -> <<22, CHOOSE c \in UnitCodes : EnumName(c) = v.s>>
      [] v.t = "Sequence" -> <<2, Len(v.a)>> \o EncodeAll(v.a, 1)

-----------------------------------------------------------------------------
(* main.go: the gauges table and the coercion of a value to an int *)

GaugeCodes ==
    {<<1, 0, 1, 7, 0, 255>>, <<1, 0, 2, 7, 0, 255>>, <<1, 0, 3, 7, 0, 255>>,
     <<1, 0, 4, 7, 0, 255>>, <<1, 0, 31, 7, 0, 255>>, <<1, 0, 51, 7, 0, 255>>,
     <<1, 0, 71, 7, 0, 255>>, <<1, 0, 32, 7, 0, 255>>, <<1, 0, 52, 7, 0, 255>>,
     <<1, 0, 72, 7, 0, 255>>, <<1, 0, 1, 8, 0, 255>>, <<1, 0, 2, 8, 0, 255>>,
     <<1, 0, 3, 8, 0, 255>>, <<1, 0, 4, 8, 0, 255>>}

\* the keys of the gauges map
gauges == {Sprintf6(c) : c \in GaugeCodes}

\* the widths of int a build can have (GOARCH 386 and arm, or amd64 and arm64)
IntSizes == {32, 64}

\* int(x) for an x of an integer type: the low intSize bits of x, read as
\* two's complement.  Of the numbers the parser returns only a uint32 of
\* 2^31 or more does not fit an int of 32 bits.
ToInt(ty, i) ==
    IF intSize = 32 /\ ty \in {"uint32", "uint64"} /\ i[1] >= 32768
    THEN <<i[1] - 65536, i[2]>>
    ELSE i

\* float64(val): every int of at most 53 bits is a float64, so the number
\* stays what it is
Float64(i) == <<i[1], i[2]>>

anytoint(x) ==
    IF x.t \in {"int8", "int16", "int32", "int64", "uint8", "uint16", "uint32", "uint64"}
    THEN [err |-> "nil", val |-> ToInt(x.t, x.n)]
    ELSE [err |-> "not a number", val |-> Num(0)]

\* the consumer's loop over a packet: g.Set(float64(val)) for every key it knows
SetGauges(g, p) ==
    [k \in gauges |->
        IF k \in DOMAIN p /\ anytoint(p[k]).err = "nil"
        THEN Float64(anytoint(p[k]).val)
        ELSE g[k]]

-----------------------------------------------------------------------------
(* main.go: the transport read into buf and the reader over buf[17:] *)

\* unf.Read(buf) writing the bytes of a frame at the start of the buffer
Overwrite(b, frame) ==
    [i \in 1..(IF Len(frame) > Len(b) THEN Len(frame) ELSE Len(b)) |->
        IF i <= Len(frame) THEN frame[i] ELSE b[i]]

\* bytes.NewReader(buf[17:])
NewReader(b) == Mem(SubSeq(b, HeaderLen + 1, Len(b)), BufSize - HeaderLen)

\* what a read leaves in the history
ReadEntry(o, perr, p) ==
    [err |-> o.err, frame |-> o.frame, src |-> o.src, perr |-> perr, packet |-> p]

-----------------------------------------------------------------------------
(* main.go: the packets channel, make(chan map[string]any, 32) *)

\* a send blocks while the buffer of the channel is full
ChanFullOffByOne(ch) == Len(ch) >= ChanCap + 1

ChanFull(ch) == Len(ch) >= ChanCap

\* packets <- packet
ChanSendInFront(ch, p) == <<p>> \o ch

ChanSend(ch, p) == Append(ch, p)

\* <-packets: the value received and what stays in the channel
ChanRecv(ch) == Head(ch)

ChanRest(ch) == Tail(ch)

-----------------------------------------------------------------------------
(* main.go: the goroutines *)

\* where the producer goes on after a parse error: `continue`
AfterParseErrorStop == "done"

AfterParseError == "loop"

\* where the producer goes on after a record has parsed: packets <- packet
AfterParseSkipSend == "loop"

AfterParse == "send"

\* where the consumer goes on after a packet: the head of its loop
AfterPacketStop == "done"

AfterPacket == "loop"

\* Counter.Inc()
IncTwice(c) == c + 2

Inc(c) == c + 1

NoOut == [op |-> "none", err |-> "nil", val |-> GoNil, result |-> EmptyMap, pos |-> 0]

\* no call of ParseAny is in progress
Idle == [pc |-> "idle", pos |-> 0, stack |-> <<>>, ret |-> Ret("nil", GoNil, 0)]

PipelineInit ==
    /\ intSize \in IntSizes
    /\ ctxDone = FALSE
    /\ httpPc = "serve"
    /\ ppc = "loop"
    /\ cpc = "loop"
    /\ buf = <<>>
    /\ packet = EmptyMap
    /\ packets = <<>>
    /\ signals = 0
    /\ gaugeVal = [k \in gauges |-> Num(0)]
    /\ msgCounter = 0
    /\ resyncCounter = 0
    /\ abortCounter = 0
    /\ parseErrorCounter = 0
    /\ reads = <<>>
    /\ sent = <<>>
    /\ received = <<>>

Init ==
    /\ PipelineInit
    /\ tree = Null
    /\ wire = <<>>
    /\ out = NoOut
    /\ parse = Idle

\* http.ListenAndServe returns (always with an error): cancel()
HttpFail ==
    /\ httpPc = "serve"
    /\ httpPc' = "done"
    /\ ctxDone' = TRUE
    /\ UNCHANGED <<intSize, ppc, cpc, buf, packet, packets, signals, gaugeVal, msgCounter,
                   resyncCounter, abortCounter, parseErrorCounter, reads, sent,
                   received, tree, wire, out, parse>>

\* the operating system delivers SIGTERM or SIGINT: signal.Notify's
\* non-blocking send on the signals channel
Signal ==
    /\ signals < SignalCap
    /\ signals' = signals + 1
    /\ UNCHANGED <<intSize, ctxDone, httpPc, ppc, cpc, buf, packet, packets, gaugeVal,
                   msgCounter, resyncCounter, abortCounter, parseErrorCounter, reads,
                   sent, received, tree, wire, out, parse>>

\* for ctx.Err() == nil
ProducerLoop ==
    /\ ppc = "loop"
    /\ ppc' = IF ctxDone THEN "done" ELSE "read"
    /\ UNCHANGED <<intSize, ctxDone, httpPc, cpc, buf, packet, packets, signals, gaugeVal,
                   msgCounter, resyncCounter, abortCounter, parseErrorCounter, reads,
                   sent, received, tree, wire, out, parse>>

\* unf.Read(buf) returns o.err having written o.frame, and the switch on err
ProducerRead(o) ==
    /\ ppc = "read"
    /\ buf' = Overwrite(buf, o.frame)
    /\ CASE o.err = "ErrResynced" ->
              /\ resyncCounter' = Inc(resyncCounter)
              /\ ppc' = "loop"
              /\ reads' = Append(reads, ReadEntry(o, "-", EmptyMap))
              /\ UNCHANGED <<abortCounter, parseErrorCounter, msgCounter, packet>>
         [] o.err = "ErrAbort" ->
              /\ abortCounter' = Inc(abortCounter)
              /\ ppc' = "loop"
              /\ reads' = Append(reads, ReadEntry(o, "-", EmptyMap))
              /\ UNCHANGED <<resyncCounter, parseErrorCounter, msgCounter, packet>>
         [] o.err = "nil" ->
              LET r == ParseFlattened(NewReader(Overwrite(buf, o.frame)), 0) IN
              IF r.err # "nil"
              THEN /\ parseErrorCounter' = Inc(parseErrorCounter)
                   /\ ppc' = AfterParseError
                   /\ reads' = Append(reads, ReadEntry(o, r.err, EmptyMap))
                   /\ UNCHANGED <<resyncCounter, abortCounter, msgCounter, packet>>
              ELSE /\ msgCounter' = Inc(msgCounter)
                   /\ packet' = r.result
                   /\ ppc' = AfterParse
                   /\ reads' = Append(reads, ReadEntry(o, "nil", r.result))
                   /\ UNCHANGED <<resyncCounter, abortCounter, parseErrorCounter>>
         [] OTHER ->
              /\ ppc' = "loop"
              /\ reads' = Append(reads, ReadEntry(o, "-", EmptyMap))
              /\ UNCHANGED <<resyncCounter, abortCounter, parseErrorCounter,
                             msgCounter, packet>>
    /\ UNCHANGED <<intSize, ctxDone, httpPc, cpc, packets, signals, gaugeVal, sent, received,
                   tree, wire, out, parse>>

\* packets <- packet
ProducerSend ==
    /\ ppc = "send"
    /\ ~ChanFull(packets)
    /\ packets' = ChanSend(packets, packet)
    /\ sent' = Append(sent, packet)
    /\ packet' = EmptyMap
    /\ ppc' = "loop"
    /\ UNCHANGED <<intSize, ctxDone, httpPc, cpc, buf, signals, gaugeVal, msgCounter,
                   resyncCounter, abortCounter, parseErrorCounter, reads, received,
                   tree, wire, out, parse>>

\* for ctx.Err() == nil
ConsumerLoop ==
    /\ cpc = "loop"
    /\ cpc' = IF ctxDone THEN "done" ELSE "select"
    /\ UNCHANGED <<intSize, ctxDone, httpPc, ppc, buf, packet, packets, signals, gaugeVal,
                   msgCounter, resyncCounter, abortCounter, parseErrorCounter, reads,
                   sent, received, tree, wire, out, parse>>

\* case packet := <-packets
ConsumerPacket ==
    /\ cpc = "select"
    /\ packets # <<>>
    /\ packets' = ChanRest(packets)
    /\ received' = Append(received, ChanRecv(packets))
    /\ gaugeVal' = SetGauges(gaugeVal, ChanRecv(packets))
    /\ cpc' = AfterPacket
    /\ UNCHANGED <<intSize, ctxDone, httpPc, ppc, buf, packet, signals, msgCounter,
                   resyncCounter, abortCounter, parseErrorCounter, reads, sent,
                   tree, wire, out, parse>>

\* case sig := <-signals: cancel()
ConsumerSignal ==
    /\ cpc = "select"
    /\ signals > 0
    /\ signals' = signals - 1
    /\ ctxDone' = TRUE
    /\ cpc' = "loop"
    /\ UNCHANGED <<intSize, httpPc, ppc, buf, packet, packets, gaugeVal, msgCounter,
                   resyncCounter, abortCounter, parseErrorCounter, reads, sent,
                   received, tree, wire, out, parse>>

-----------------------------------------------------------------------------
(* Bounds *)

\* transport reads of a run with arbitrary outcomes
MaxReads == 3

\* transport reads of a run of a steadily sending meter
MaxLoadReads == 34

\* transport reads of a run of a meter sending integers of every type
MaxGaugeReads == 2

\* elements of a top-level sequence given to the parser
MaxElems == 2

\* the length byte, and the bytes after it, of an identifier given to the parser
MaxCodeBytes == 8

\* sequences inside one another given to the parser
MaxNesting == 33

-----------------------------------------------------------------------------
(* Sample data *)

IdA == <<1, 0, 1, 7, 0, 255>>

IdB == <<1, 0, 32, 7, 0, 255>>

IdX == <<9, 9, 9, 9, 9, 255>>

\* a tree-shaped marker for bytes that encode no tree
Raw == [t |-> "Raw", w |-> "", n |-> Num(0), s |-> NoSeq, a |-> NoSeq]

\* the link-layer header in front of every frame
Hdr == [i \in 1..HeaderLen |-> 0]

ElemLong1 == Sequence(<<Identifier(IdA), Integer("int16", Num(-5))>>)

ElemLong2 ==
    Sequence(<<Identifier(IdB), Integer("uint16", Num(2500)),
               Sequence(<<Integer("uint8", Num(255)), Unit(<<86>>)>>)>>)

TreeLong == Sequence(<<ElemLong1, ElemLong2>>)

TreeText == Sequence(<<Sequence(<<Text(<<87>>), Integer("uint8", Num(1))>>)>>)

Clean(src, payload) == [err |-> "nil", src |-> src, frame |-> Hdr \o payload]

\* two elements
FrameLong == Clean(TreeLong, Encode(TreeLong))

\* a count of two, followed by the first element of FrameLong alone
FrameTrunc == Clean(Raw, <<2, 2>> \o Encode(ElemLong1))

\* a type tag that is none of the table
FrameBad == Clean(Raw, <<2, 1, 7>>)

\* an element whose first member is a Text
FrameText == Clean(TreeText, Encode(TreeText))

CleanFrames == {FrameLong, FrameTrunc, FrameBad, FrameText}

\* a read that ends with an error, having written the given bytes
Failed(err, written) == [err |-> err, src |-> Raw, frame |-> written]

Outcomes ==
    CleanFrames \cup
    {Failed("ErrResynced", <<>>), Failed("ErrAbort", Hdr \o <<2, 2>>), Failed("other", <<>>)}

\* the i-th frame of a steadily sending meter
Telegram(i) ==
    LET t == Sequence(<<Sequence(<<Identifier(IdA), Integer("uint8", Num(i))>>)>>) IN
    Clean(t, Encode(t))

-----------------------------------------------------------------------------
(* The pipeline, reading arbitrary transport outcomes; no signal arrives *)

Read ==
    /\ Len(reads) < MaxReads
    /\ \E o \in Outcomes : ProducerRead(o)

Next ==
    \/ HttpFail
    \/ ProducerLoop
    \/ Read
    \/ ProducerSend
    \/ ConsumerLoop
    \/ ConsumerPacket

Spec == Init /\ [][Next]_vars

-----------------------------------------------------------------------------
(* The pipeline, reading the frames of a steadily sending meter *)

LoadRead ==
    /\ Len(reads) < MaxLoadReads
    /\ ProducerRead(Telegram(Len(reads) + 1))

LoadNext ==
    \/ HttpFail
    \/ Signal
    \/ ProducerLoop
    \/ LoadRead
    \/ ProducerSend
    \/ ConsumerLoop
    \/ ConsumerPacket
    \/ ConsumerSignal

LoadSpec == Init /\ [][LoadNext]_vars

\* every goroutine that can take a step of its own eventually takes one; the
\* transport, the signals and the HTTP server are not required to do anything
FairLoadSpec ==
    /\ LoadSpec
    /\ WF_vars(ProducerLoop)
    /\ WF_vars(ProducerSend)
    /\ WF_vars(ConsumerLoop)
    /\ WF_vars(ConsumerPacket)
    /\ WF_vars(ConsumerSignal)

\* the steadily sending meter and the two goroutines, nothing cancelling the
\* pipeline
FlowNext ==
    \/ ProducerLoop
    \/ LoadRead
    \/ ProducerSend
    \/ ConsumerLoop
    \/ ConsumerPacket

FlowSpec == Init /\ [][FlowNext]_vars

\* both goroutines are scheduled fairly; the transport is not required to
\* deliver anything
FairFlowSpec ==
    /\ FlowSpec
    /\ WF_vars(ProducerLoop)
    /\ WF_vars(ProducerSend)
    /\ WF_vars(ConsumerLoop)
    /\ WF_vars(ConsumerPacket)

-----------------------------------------------------------------------------
(* The pipeline, reading records whose values are integers of every type,  *)
(* among them the least and the greatest, and values that are no integers  *)

\* a record of the given elements, each a pair or a triple led by an identifier
Record(elems) == Clean(Sequence(elems), Encode(Sequence(elems)))

Pair(id, v) == Sequence(<<Identifier(id), v>>)

\* 2147483648 and -5; a unit and an identifier that is no gauge; -2147483648
\* and -128; null and 65535; 4294967295 (with a unit after it) and 255; -1
GaugeFrames ==
    {Record(<<Pair(IdA, Integer("uint32", <<32768, 0>>)), Pair(IdB, Integer("int16", Num(-5)))>>),
     Record(<<Pair(IdA, Unit(<<87>>)), Pair(IdX, Integer("uint8", Num(7)))>>),
     Record(<<Pair(IdB, Integer("int32", <<-32768, 0>>)), Pair(IdA, Integer("int8", Num(-128)))>>),
     Record(<<Pair(IdA, Null), Pair(IdB, Integer("uint16", Num(65535)))>>),
     Record(<<Sequence(<<Identifier(IdA), Integer("uint32", <<65535, 65535>>), Unit(<<87, 104>>)>>),
              Pair(IdB, Integer("uint8", Num(255)))>>),
     Record(<<Pair(IdB, Integer("int32", <<-1, 65535>>))>>)}

GaugeRead ==
    /\ Len(reads) < MaxGaugeReads
    /\ \E o \in GaugeFrames : ProducerRead(o)

GaugeNext ==
    \/ ProducerLoop
    \/ GaugeRead
    \/ ProducerSend
    \/ ConsumerLoop
    \/ ConsumerPacket

GaugeSpec == Init /\ [][GaugeNext]_vars

-----------------------------------------------------------------------------
(* The parser on its own: a value tree is encoded and parsed, or raw bytes *)
(* are parsed.                                                             *)

\* the last four are -2147483648, -1, 2147483648 and 4294967295
SampleIntegers ==
    {Integer("int8", Num(-128)), Integer("int8", Num(-1)), Integer("int8", Num(127)),
     Integer("uint8", Num(0)), Integer("uint8", Num(255)),
     Integer("int16", Num(-32768)), Integer("int16", Num(255)),
     Integer("uint16", Num(255)), Integer("uint16", Num(65535)),
     Integer("int32", <<-32768, 0>>), Integer("int32", <<-1, 65535>>),
     Integer("uint32", <<32768, 0>>), Integer("uint32", <<65535, 65535>>)}

SampleTexts == {Text(<<>>), Text(<<87>>), Text(<<86, 65>>), Text(Sprintf6(IdA))}

SampleIdentifiers == {Identifier(IdA), Identifier(IdB), Identifier(IdX)}

SampleUnits == {Unit(EnumName(c)) : c \in UnitCodes}

Scalars == {Null} \cup SampleIntegers \cup SampleTexts \cup SampleIdentifiers \cup SampleUnits

\* first members, second members and what may follow them
SampleKeys == {Identifier(IdA), Identifier(IdB), Text(<<87>>), Unit(<<87>>), Null}

SampleVals == {Integer("uint16", Num(2500)), Integer("int8", Num(-1)), Unit(<<86>>)}

SampleMeta == Sequence(<<Integer("uint8", Num(255)), Unit(<<86>>)>>)

SampleElems ==
    {Sequence(<<k, v>>) : k \in SampleKeys, v \in SampleVals} \cup
    {Sequence(<<k, v, SampleMeta>>) : k \in {Identifier(IdA)}, v \in SampleVals} \cup
    {Sequence(<<Identifier(IdA)>>), Integer("uint8", Num(7))}

SampleTrees ==
    Scalars \cup SampleElems \cup
    {Sequence(r) : r \in UNION {[1..n -> SampleElems] : n \in 0..MaxElems}}

Fill(k) == [i \in 1..k |-> i]

\* an identifier tag, a length byte n and k bytes after it
CodeWires == {<<9, n>> \o Fill(k) : n \in 0..MaxCodeBytes, k \in 0..MaxCodeBytes}

\* the documented example with its array and structure tags, a UTF-8 string,
\* an unknown tag, an unknown unit, integers cut short
OtherWires ==
    {<<2, 3, 9, 6, 1, 0, 32, 7, 0, 255, 18, 9, 196, 1, 2, 17, 255, 22, 35>>,
     <<12, 2, 86, 65>>, <<7>>, <<22, 31>>, <<22>>, <<18, 9>>, <<6, 1, 2, 3>>, <<>>,
     <<2, 5, 17, 1, 17, 2>>, <<10, 3, 87>>}

RECURSIVE Nest(_)

\* k sequences of one member inside one another, the innermost holding a null
Nest(k) == IF k = 0 THEN <<0>> ELSE <<2, 1>> \o Nest(k - 1)

NestWires == {Nest(k) : k \in 0..MaxNesting}

\* values that fail to parse, with the error they fail with: an unknown tag,
\* an unknown unit, an identifier of five bytes, an integer and a string cut
\* short, nothing at all, and a sequence holding an unknown tag
BadValues ==
    {[bytes |-> <<7>>, err |-> "unrecognized datatype: 7"],
     [bytes |-> <<22, 31>>, err |-> "unknown enum index 31"],
     [bytes |-> <<9, 5, 1, 2, 3, 4, 5>>, err |-> "not a code"],
     [bytes |-> <<18, 9>>, err |-> "unexpected EOF"],
     [bytes |-> <<10, 3, 87>>, err |-> "unexpected EOF"],
     [bytes |-> <<>>, err |-> "EOF"],
     [bytes |-> <<1, 2, 0, 200>>, err |-> "unrecognized datatype: 200"]}

\* a record of two elements, the second member of the second being b
BrokenSecond(b) == <<2, 2>> \o Encode(ElemLong1) \o <<2, 2, 9, 6>> \o IdB \o b

\* a record of two elements, the third member of the second being a
\* sequence whose second member is b
BrokenThird(b) ==
    <<2, 2>> \o Encode(ElemLong1) \o <<2, 3, 9, 6>> \o IdB \o <<18, 9, 196, 2, 2, 17, 255>> \o b

\* a record whose first element is b
BrokenFirst(b) == <<2, 2>> \o b

BrokenWires ==
    {BrokenSecond(v.bytes) : v \in BadValues} \cup {BrokenThird(v.bytes) : v \in BadValues}
    \cup {BrokenFirst(v.bytes) : v \in BadValues}

Bytes == 0..255

\* the type tags of ParseAny
Tags == {0, 1, 2, 5, 6, 9, 10, 12, 15, 16, 17, 18, 22}

\* a byte that is no type tag, alone or with bytes after it
TagWires == {<<t>> \o Fill(k) : t \in Bytes \ Tags, k \in {0, 2}}

\* the tag of a unit and any byte, alone or with a byte after it
UnitWires == {<<22, b>> \o Fill(k) : b \in Bytes, k \in {0, 1}}

ParserInit ==
    /\ PipelineInit
    /\ out = NoOut
    /\ parse = Idle
    /\ \/ tree \in SampleTrees /\ wire = Encode(tree)
       \/ /\ tree = Raw
          /\ wire \in CodeWires \cup OtherWires \cup BrokenWires \cup TagWires \cup UnitWires

\* ParseAny(bytes.NewReader(wire))
ApplyParseAny ==
    /\ out.op = "none"
    /\ LET r == ParseAny(BytesReader(wire), 0) IN
       out' = [op |-> "ParseAny", err |-> r.err, val |-> r.val, result |-> EmptyMap,
               pos |-> r.pos]
    /\ UNCHANGED <<tree, wire, parse>>
    /\ UNCHANGED pipelineVars

\* ParseFlattened(bytes.NewReader(wire))
ApplyParseFlattened ==
    /\ out.op = "none"
    /\ LET r == ParseFlattened(BytesReader(wire), 0) IN
       out' = [op |-> "ParseFlattened", err |-> r.err, val |-> GoNil, result |-> r.result,
               pos |-> r.pos]
    /\ UNCHANGED <<tree, wire, parse>>
    /\ UNCHANGED pipelineVars

ParserNext ==
    \/ ApplyParseAny
    \/ ApplyParseFlattened

ParserSpec == ParserInit /\ [][ParserNext]_vars

-----------------------------------------------------------------------------
(* The parser step by step: every call of ParseAny and of ParseArray and   *)
(* every return is a step, and the calls of ParseArray that have not yet   *)
(* returned are a stack.  An open call of ParseArray is [le, i, arr]: the  *)
(* count it read, the element it is at and the elements stored so far.     *)

\* ParseAny(bytes.NewReader(wire)) is called
StepBegin ==
    /\ parse.pc = "idle"
    /\ out.op = "none"
    /\ parse' = [parse EXCEPT !.pc = "any"]
    /\ UNCHANGED <<tree, wire, out>>
    /\ UNCHANGED pipelineVars

\* a call of ParseAny: it reads the tag; for an array or a structure it
\* calls ParseArray, which reads the count and makes the array; for any
\* other tag it returns what the parser of that tag returns
StepParseAny ==
    /\ parse.pc = "any"
    /\ LET m == BytesReader(wire)
           l == ReadFull(m, parse.pos, 1)
           c == ReadFull(m, l.pos, 1)
           r == ParseAny(m, parse.pos) IN
       IF l.err = "nil" /\ l.bytes[1] \in {1, 2}
       THEN IF c.err # "nil"
            THEN parse' = [parse EXCEPT !.pc = "ret", !.pos = c.pos,
                                        !.ret = Ret(c.err, GoNil, c.pos)]
            ELSE parse' = [parse EXCEPT
                              !.pc = "array", !.pos = c.pos,
                              !.stack = Append(@, [le |-> c.bytes[1], i |-> 1,
                                                   arr |-> [j \in 1..c.bytes[1] |-> GoNil]])]
       ELSE parse' = [parse EXCEPT !.pc = "ret", !.pos = r.pos, !.ret = r]
    /\ UNCHANGED <<tree, wire, out>>
    /\ UNCHANGED pipelineVars

\* the head of the loop of the innermost call of ParseArray: it calls
\* ParseAny for its next element, or returns its array
StepParseArray ==
    /\ parse.pc = "array"
    /\ LET top == parse.stack[Len(parse.stack)] IN
       IF top.i > top.le
       THEN parse' = [parse EXCEPT !.pc = "ret",
                                   !.stack = SubSeq(@, 1, Len(@) - 1),
                                   !.ret = Ret("nil", GoArr(top.arr), parse.pos)]
       ELSE parse' = [parse EXCEPT !.pc = "any"]
    /\ UNCHANGED <<tree, wire, out>>
    /\ UNCHANGED pipelineVars

\* a call of ParseAny returns: to the caller of the outermost call, or to
\* the innermost call of ParseArray, which stores the value and, on an
\* error, returns its array with the error
StepReturn ==
    /\ parse.pc = "ret"
    /\ IF parse.stack = <<>>
       THEN /\ parse' = [parse EXCEPT !.pc = "done"]
            /\ out' = [op |-> "ParseAny", err |-> parse.ret.err, val |-> parse.ret.val,
                       result |-> EmptyMap, pos |-> parse.ret.pos]
       ELSE LET n == Len(parse.stack)
                top == parse.stack[n]
                stored == [top.arr EXCEPT ![top.i] = parse.ret.val] IN
            /\ out' = out
            /\ IF parse.ret.err # "nil"
               THEN parse' = [parse EXCEPT
                                 !.stack = SubSeq(@, 1, n - 1),
                                 !.ret = Ret(parse.ret.err, GoArr(stored), parse.pos)]
               ELSE parse' = [parse EXCEPT
                                 !.pc = "array",
                                 !.stack[n] = [top EXCEPT !.i = @ + 1, !.arr = stored]]
    /\ UNCHANGED <<tree, wire>>
    /\ UNCHANGED pipelineVars

\* the bytes parsed step by step: sequences inside one another, and the
\* bytes of the parser specification that fit a sequence of a few members
StepInit ==
    /\ PipelineInit
    /\ out = NoOut
    /\ parse = Idle
    /\ tree = Raw
    /\ wire \in NestWires \cup OtherWires \cup BrokenWires

StepNext ==
    \/ StepBegin
    \/ StepParseAny
    \/ StepParseArray
    \/ StepReturn

StepSpec == StepInit /\ [][StepNext]_vars

-----------------------------------------------------------------------------
(* Properties of the pipeline *)

\* the bytes of a frame after its header
Payload(frame) == SubSeq(frame, HeaderLen + 1, Len(frame))

\* what the bytes of a frame parse to when nothing follows them
OwnParse(frame) == ParseFlattened(BytesReader(Payload(frame)), 0)

\* the bytes of the frame are one complete record, parsed to its last byte
WellFormedRecord(frame) ==
    OwnParse(frame).err = "nil" /\ OwnParse(frame).pos = Len(Payload(frame))

IsClean(e) == e.err = "nil"

Decoded(e) == e.err = "nil" /\ e.perr = "nil"

ParseFailed(e) == e.err = "nil" /\ e.perr # "nil"

\* the reads that gave a packet, in order
OkReads == SelectSeq(reads, Decoded)

PacketsOf(rs) == [i \in 1..Len(rs) |-> rs[i].packet]

\* the packet the producer holds at its send
Pending == IF ppc = "send" THEN <<packet>> ELSE <<>>

\* the read steps of C1: a clean record that fails to parse sends nothing,
\* holds nothing and leaves the producer at the head of its loop; a clean,
\* complete record is held for sending as the packet of its own bytes,
\* whatever was read before it, parse errors included
C1Step ==
    reads' # reads =>
        LET e == reads'[Len(reads')] IN
        /\ ParseFailed(e) =>
              /\ ppc' = "loop"
              /\ packets' = packets
              /\ sent' = sent
              /\ packet' = packet
        /\ IsClean(e) /\ WellFormedRecord(e.frame) =>
              /\ Decoded(e)
              /\ ppc' = "send"
              /\ packet' = OwnParse(e.frame).result

\* C1: a parse error is not fatal to the producer.  The producer leaves its
\* loop on cancellation only; a clean record that fails to parse puts nothing
\* on the way to the channel (the packets sent or held are as many as the
\* records that parsed); and every clean, complete record, also one read
\* after parse errors, is parsed and held for sending.
C1_ParseErrorNotFatal ==
    /\ [](ppc = "done" => ctxDone)
    /\ [](Len(sent) + Len(Pending) = Len(OkReads))
    /\ [][C1Step]_vars

\* a record failed to parse, a later complete record was read before any
\* cancellation, and its packet has been sent
C1_Witness ==
    /\ ~ctxDone
    /\ ppc # "send"
    /\ \E i, j \in DOMAIN reads :
          /\ i < j
          /\ ParseFailed(reads[i])
          /\ Decoded(reads[j])
          /\ WellFormedRecord(reads[j].frame)
          /\ j = Len(reads)
          /\ sent # <<>>
          /\ sent[Len(sent)] = reads[j].packet

\* C3: the packets received are a prefix of the packets sent, the rest being
\* in the channel in the same order, and the packets sent (with the one the
\* producer holds) are those of the records that parsed, in the order the
\* transport returned them: nothing is reordered, duplicated or skipped.
C3_FifoDelivery ==
    /\ received \o packets = sent
    /\ sent \o Pending = PacketsOf(OkReads)

\* two different packets were received and a third waits in the channel
C3_Witness ==
    /\ Len(received) >= 2
    /\ received[1] # received[2]
    /\ packets # <<>>

\* the steps of C4: while the producer is at its send no transport read
\* happens; while the channel holds 32 packets the producer stays there with
\* the same packet; and when it leaves, that packet is the last of the channel
C4Step ==
    ppc = "send" =>
        /\ reads' = reads
        /\ Len(packets) = ChanCap => ppc' = "send" /\ packet' = packet /\ sent' = sent
        /\ ppc' # "send" => packets' = Append(packets, packet) /\ sent' = Append(sent, packet)

\* C4: the channel never holds more than 32 packets and no parsed record is
\* dropped: the producer blocks at its send while the channel is full, reads
\* nothing meanwhile, and then sends that same packet.
C4_BoundedBlockingQueue ==
    /\ [](Len(packets) <= ChanCap)
    /\ [](Len(sent) + Len(Pending) = Len(OkReads))
    /\ [][C4Step]_vars

\* the channel is full and the producer is blocked with one more packet
C4_Witness ==
    /\ Len(packets) = ChanCap
    /\ ppc = "send"
    /\ ~ctxDone

\* the flattening schema on a value tree: a Sequence of Sequences of at
\* least two members, the first an Identifier
ValidSchema(t) ==
    /\ t.t = "Sequence"
    /\ \A i \in DOMAIN t.a :
          /\ t.a[i].t = "Sequence"
          /\ Len(t.a[i].a) >= 2
          /\ t.a[i].a[1].t = "Identifier"
          /\ Len(t.a[i].a[1].s) = CodeLen

\* a tree that has an element led by a member that is no Identifier
KeyNotIdentifier(t) ==
    /\ t.t = "Sequence"
    /\ \E i \in DOMAIN t.a :
          /\ t.a[i].t = "Sequence"
          /\ Len(t.a[i].a) >= 2
          /\ t.a[i].a[1].t # "Identifier"

\* C2: every packet ever sent on the channel comes from a record that is a
\* Sequence of Sequences of at least two members led by an Identifier (wire
\* tag 9), and a record with an element led by any other variant fails to
\* parse and is not sent.
C2_QueuedRecordsValid ==
    /\ \A k \in 1..Len(sent) : ValidSchema(OkReads[k].src)
    /\ \A i \in DOMAIN reads :
          IsClean(reads[i]) /\ KeyNotIdentifier(reads[i].src) => ParseFailed(reads[i])

\* C5: once cancelled, the producer reads nothing after its next check of
\* the context, and a producer that is at its send when the pipeline is
\* cancelled, also one facing a full channel that the consumer has left,
\* eventually reaches the point after its loop.
C5_ProducerExitsAfterCancel ==
    /\ [][ctxDone /\ ppc = "loop" => ppc' # "read" /\ reads' = reads]_vars
    /\ (ctxDone /\ ppc = "send") ~> (ppc = "done")

\* C6: a read that ends with an error other than ErrResynced and ErrAbort
\* ends the producer loop: no read follows it.
C6_FatalErrorStopsProducer ==
    \A i \in DOMAIN reads :
        reads[i].err \notin {"nil", "ErrResynced", "ErrAbort"} =>
            i = Len(reads) /\ ppc # "read"

\* the bytes of the frame end before the values they declare
Truncated(frame) ==
    ParseAny(BytesReader(Payload(frame)), 0).err \in {"EOF", "unexpected EOF"}

\* C7: what comes of a clean record (the parse error, or the packet) depends
\* on its own bytes only, so the same frame gives the same outcome whatever
\* was read before it; and a record whose bytes end before the elements it
\* declares fails to parse.
C7_OutcomeFromOwnBytes ==
    /\ \A i, j \in DOMAIN reads :
          IsClean(reads[i]) /\ IsClean(reads[j]) /\ reads[i].frame = reads[j].frame =>
              reads[i].perr = reads[j].perr /\ reads[i].packet = reads[j].packet
    /\ \A i \in DOMAIN reads :
          IsClean(reads[i]) /\ Truncated(reads[i].frame) => ParseFailed(reads[i])

\* C14: a run goes from running (not cancelled) to stopping (cancelled, the
\* consumer still in its loop) to stopped (the consumer has left its loop)
\* and never back, and once cancelled, by a signal or by the HTTP server
\* goroutine, the consumer eventually leaves its loop, whether or not
\* another record or signal arrives.
C14_ShutdownCompletes ==
    /\ [][/\ ctxDone => ctxDone'
          /\ cpc = "done" => cpc' = "done"
          /\ cpc' = "done" => ctxDone]_vars
    /\ ctxDone ~> (cpc = "done")

\* C19: while the pipeline is not cancelled, a producer blocked at the send
\* of a full channel faces a consumer that is in its loop and can take a
\* packet; the consumer takes packets off the channel again and again unless
\* the channel stays empty, so that every packet sent is received and
\* applied to the gauges (the first, and the one sent to a full channel,
\* among them); and a producer at its send eventually leaves it.
C19_EnqueuedIsDequeued ==
    /\ [](~ctxDone /\ ppc = "send" /\ ChanFull(packets) =>
            cpc = "loop" \/ (cpc = "select" /\ packets # <<>>))
    /\ \/ []<><<ConsumerPacket>>_vars
       \/ <>[](packets = <<>>)
       \/ <>ctxDone
    /\ \A n \in {1, ChanCap + 1} :
          (Len(sent) >= n) ~> (Len(received) >= n \/ ctxDone)
    /\ (ppc = "send") ~> (ppc # "send" \/ ctxDone)

\* the producer has sent one packet more than the channel holds, so it was
\* let through by the consumer, and the consumer has applied every packet
\* sent, the pipeline not being cancelled
C19_Witness ==
    /\ ~ctxDone
    /\ Len(sent) > ChanCap
    /\ Len(received) = Len(sent)
    /\ gaugeVal[Sprintf6(IdA)] = Num(Len(sent))

-----------------------------------------------------------------------------
(* Properties of the parser *)

RECURSIVE GoValue(_)

\* the Go value that stands for a value tree: an Identifier is its rendered
\* string, a Unit its name, a Text its characters
GoValue(t) ==
    CASE t.t = "Null" -> GoNil
      [] t.t = "Integer" -> GoInt(t.w, t.n)
      [] t.t = "Text" -> GoString(t.s)
      [] t.t = "Identifier" -> GoString(Sprintf6(t.s))
      [] t.t = "Unit" -> GoString(t.s)
      [] t.t = "Sequence" -> GoArr([i \in DOMAIN t.a |-> GoValue(t.a[i])])

\* the rendered identifier of the i-th element of a tree of the schema
KeyOf(t, i) == Sprintf6(t.a[i].a[1].s)

Flattened == out.op = "ParseFlattened"

\* C8, as claimed: a tree of the schema flattens to a mapping with exactly
\* one entry per element, the entry of an element being its rendered
\* identifier and its second member.
C8_OneEntryPerElement ==
    Flattened /\ ValidSchema(tree) =>
        /\ out.err = "nil"
        /\ DOMAIN out.result = {KeyOf(tree, i) : i \in DOMAIN tree.a}
        /\ Cardinality(DOMAIN out.result) = Len(tree.a)
        /\ \A i \in DOMAIN tree.a : out.result[KeyOf(tree, i)] = GoValue(tree.a[i].a[2])

\* C8, amended: a tree of the schema flattens to a mapping whose keys are the
\* rendered identifiers of its elements, one entry per distinct identifier,
\* each with the second member of the last element that has the identifier;
\* members after the second have no part in it.
C8_OneEntryPerIdentifier ==
    Flattened /\ ValidSchema(tree) =>
        /\ out.err = "nil"
        /\ DOMAIN out.result = {KeyOf(tree, i) : i \in DOMAIN tree.a}
        /\ \A i \in DOMAIN tree.a :
              (\A j \in DOMAIN tree.a : j > i => KeyOf(tree, j) # KeyOf(tree, i)) =>
                  out.result[KeyOf(tree, i)] = GoValue(tree.a[i].a[2])

\* a tree of the schema with the same identifier twice and different second
\* members, one element having a third member, has been flattened
C8_Witness ==
    /\ Flattened
    /\ ValidSchema(tree)
    /\ out.err = "nil"
    /\ \E i, j \in DOMAIN tree.a :
          /\ i < j
          /\ KeyOf(tree, i) = KeyOf(tree, j)
          /\ tree.a[i].a[2] # tree.a[j].a[2]
          /\ Len(tree.a[i].a) > 2

\* C9: an identifier (tag 9) whose length byte is not 6 fails with "not a
\* code" whatever follows the length byte, and the reader has consumed the
\* tag and the length byte only.
C9_MalformedIdentifier ==
    out.op = "ParseAny" /\ wire \in CodeWires /\ wire[2] # CodeLen =>
        out.err = "not a code" /\ out.pos = 2

\* what a tree parses back to
Reparsed(t) == ParseAny(BytesReader(Encode(t)), 0).val

\* C10: the encoding of a value tree parses, without error and to its last
\* byte, to the value of the tree with the integer type and number kept, and
\* no other tree parses to the same value (an Identifier, a Text and a Unit
\* of the same characters are told apart).
C10_RoundTrip ==
    out.op = "ParseAny" /\ tree # Raw =>
        /\ out.err = "nil"
        /\ out.pos = Len(wire)
        /\ out.val = GoValue(tree)
        /\ \A t \in Scalars : t # tree => Reparsed(t) # out.val

\* C13: the parser goes no deeper than 32 sequences inside one another: no
\* more than 32 calls of ParseArray are ever open, and bytes that nest
\* sequences deeper than that fail to parse, with an error that tells of the
\* nesting.
C13_NestingCapped ==
    /\ Len(parse.stack) <= 32
    /\ \A k \in 0..MaxNesting :
          parse.pc = "done" /\ wire = Nest(k) /\ k > 32 => out.err = "excessive nesting"

\* C15: a value that fails to parse, as a member of an element of a record
\* or deeper, makes ParseFlattened return the error of that value and no
\* mapping, whatever parsed before it.
C15_FailureAbortsRecord ==
    Flattened =>
        \A v \in BadValues :
            wire \in {BrokenFirst(v.bytes), BrokenSecond(v.bytes), BrokenThird(v.bytes)} =>
                out.err = v.err /\ out.result = EmptyMap

\* a record whose first element parsed and whose second element holds an
\* unknown unit two sequences deep has been given to ParseFlattened
C15_Witness ==
    /\ Flattened
    /\ wire = BrokenThird(<<22, 31>>)
    /\ out.err = "unknown enum index 31"
    /\ out.result = EmptyMap

\* the unit names of the table, as ASCII: W, VA, VAr, Wh, VArh, A, V
UnitTable ==
    (27 :> <<87>>) @@ (28 :> <<86, 65>>) @@ (29 :> <<86, 65, 114>>) @@
    (30 :> <<87, 104>>) @@ (32 :> <<86, 65, 114, 104>>) @@ (33 :> <<65>>) @@
    (35 :> <<86>>)

\* C16: a first byte that is none of 0, 1, 2, 5, 6, 9, 10, 12, 15, 16, 17,
\* 18, 22 fails with the error of an unrecognized type that names the byte,
\* the reader having consumed that byte only; after the tag 22 a byte that
\* is none of 27, 28, 29, 30, 32, 33, 35 fails with the error of an unknown
\* unit that names the byte, and each of the seven gives its name.
C16_ClosedTables ==
    out.op = "ParseAny" /\ wire # <<>> =>
        /\ wire[1] \notin {0, 1, 2, 5, 6, 9, 10, 12, 15, 16, 17, 18, 22} =>
              /\ out.err = "unrecognized datatype: " \o ToString(wire[1])
              /\ out.pos = 1
        /\ wire[1] = 22 /\ Len(wire) >= 2 =>
              IF wire[2] \in DOMAIN UnitTable
              THEN out.err = "nil" /\ out.val = GoString(UnitTable[wire[2]]) /\ out.pos = 2
              ELSE out.err = "unknown enum index " \o ToString(wire[2]) /\ out.pos = 2

\* the unit byte 31, with a byte after it, has been given to the parser
C16_Witness ==
    /\ out.op = "ParseAny"
    /\ wire = <<22, 31, 1>>
    /\ out.err = "unknown enum index 31"
    /\ out.pos = 2

-----------------------------------------------------------------------------
(* Properties of the gauges and the counters *)

\* the Go types of the Integer variant
IntegerTypes == {"int8", "int16", "int32", "uint8", "uint16", "uint32"}

Counters == <<msgCounter, resyncCounter, abortCounter, parseErrorCounter>>

\* the steps of C11: the consumer takes a packet off the channel
C11Step ==
    received' # received =>
        LET p == received'[Len(received')] IN
        /\ \A k \in gauges :
              gaugeVal'[k] = IF k \in DOMAIN p /\ p[k].t \in IntegerTypes
                             THEN p[k].n
                             ELSE gaugeVal[k]
        /\ Counters' = Counters
        /\ cpc' = "loop"

\* C11: when the consumer processes a packet, the gauge of an identifier is
\* set if and only if the identifier is a key of the packet, is in the gauges
\* table and has an integer for its value, and it is set to the number of
\* that integer; every other gauge keeps its value, no counter changes and
\* the consumer goes on with its loop.
C11_GaugeSetIffInteger == [][C11Step]_vars

\* the last element of a tree of the schema that has the key k, or 0
LastWith(t, k) ==
    LET is == {i \in DOMAIN t.a : KeyOf(t, i) = k} IN
    IF is = {} THEN 0 ELSE CHOOSE i \in is : \A j \in is : j <= i

\* the steps of C17: the consumer takes the n-th packet off the channel, the
\* packet of the n-th record that parsed
C17Step ==
    received' # received =>
        LET t == OkReads[Len(received')].src IN
        \A k \in gauges :
            LET i == LastWith(t, k) IN
            i # 0 /\ t.a[i].a[2].t = "Integer" => gaugeVal'[k] = t.a[i].a[2].n

\* C17: the number a gauge is set to is the number of the integer of the
\* record's value tree, whatever its type (int8, int16, int32, uint8, uint16,
\* uint32): nothing is cut off, wrapped or changes its sign on the way from
\* the bytes to the gauge, a uint32 of 2^31 or more and negative numbers
\* included.
C17_IntegerValuePreserved == [][C17Step]_vars

\* the place in Counters of the counter a read is counted by, 0 for a read
\* that ends with an error other than ErrResynced and ErrAbort
CounterOf(e) ==
    CASE e.err = "ErrResynced" -> 2
      [] e.err = "ErrAbort" -> 3
      [] Decoded(e) -> 1
      [] ParseFailed(e) -> 4
      [] OTHER -> 0

NoCounterDecreases == \A i \in 1..4 : Counters'[i] >= Counters[i]

\* the counters after a step are those before it, with the i-th one more
CountedBy(i) == \A j \in 1..4 : Counters'[j] = Counters[j] + (IF j = i THEN 1 ELSE 0)

\* C12, as claimed: no counter ever decreases, and every transport read,
\* whatever its outcome, changes exactly one counter by exactly one and
\* leaves the other three as they are: the counter of its outcome where the
\* outcome is one of the four listed.
C12_EveryReadCounted ==
    /\ [][NoCounterDecreases]_vars
    /\ [][reads' # reads =>
            LET e == reads'[Len(reads')] IN
            /\ \E i \in 1..4 : CountedBy(i)
            /\ CounterOf(e) # 0 => CountedBy(CounterOf(e))]_vars

\* C12, amended: no counter ever decreases; a read that is resynchronized,
\* aborted, a clean record that parses or a clean record that fails to parse
\* changes the counter of its outcome by exactly one and no other; a read
\* that ends with any other error changes no counter; and no step other than
\* a read changes a counter.
C12_ListedReadsCounted ==
    /\ [][NoCounterDecreases]_vars
    /\ [][IF reads' # reads
          THEN CountedBy(CounterOf(reads'[Len(reads')]))
          ELSE Counters' = Counters]_vars

\* a record has parsed, a read was aborted and a read ended with another error
C12_Witness ==
    /\ msgCounter = 1
    /\ abortCounter = 1
    /\ resyncCounter = 0
    /\ parseErrorCounter = 0
    /\ Len(reads) = 3
    /\ \E i \in DOMAIN reads : CounterOf(reads[i]) = 0

\* C18: the counter of parsed records is the number of packets sent on the
\* channel, plus one while the producer is at its send with a packet it has
\* counted; so it is never more than one above the number of packets sent,
\* also when the pipeline has shut down.
C18_CountedThenSent ==
    /\ msgCounter = Len(sent) + (IF ppc = "send" THEN 1 ELSE 0)
    /\ msgCounter - Len(sent) \in {0, 1}

\* the pipeline has shut down with the producer at its send: the counter is
\* one above the number of packets sent
C18_Witness ==
    /\ ctxDone
    /\ cpc = "done"
    /\ ppc = "send"
    /\ ChanFull(packets)
    /\ msgCounter = Len(sent) + 1

====
